---- MODULE Spec2Model ----
(***************************************************************************)
(* State machine of App.tsx: the session held in React state              *)
(* (currentUser), the profile rows of the backing store, the profile      *)
(* hydration effect, the points ledger (deductPoints and                  *)
(* handleCheckoutSuccess), the merge-patch handlers and the chat          *)
(* transcript effect.  Every await of the source is a suspension point:   *)
(* the code before it is one step and the code that runs on the response  *)
(* is a later step, so any number of other steps may come between them.   *)
(* For the ledger, the transcript fetch and the transcript clear the store *)
(* processing the request is a step of its own between the two; for the   *)
(* other requests it is taken together with the response.                 *)
(***************************************************************************)
EXTENDS Integers, Sequences, FiniteSets, TLC

(* ---------------------------------------------------------------------- *)
(* Bounds of the model                                                     *)
(* ---------------------------------------------------------------------- *)
\* number of external events: authentication events delivered to
\* onAuthStateChange, handler calls made by the presentation code, and writes
\* made by other clients of the same store
MaxEvents == 3

(* ---------------------------------------------------------------------- *)
(* Data                                                                    *)
(* ---------------------------------------------------------------------- *)
\* identities known to the authentication provider
Ids == {"a", "u"}

\* user.email of each identity, as a sequence of characters
EmailOf(id) ==
  IF id = "a" THEN <<"T", "e", "s", "t">> ELSE <<"u", "s", "e", "r">>

\* String.prototype.toLowerCase on one character
LowerChar(c) ==
  CASE c = "T" -> "t"
    [] c = "E" -> "e"
    [] c = "S" -> "s"
    [] c = "U" -> "u"
    [] OTHER -> c

\* String.prototype.toLowerCase
ToLowerCase(s) == [i \in 1..Len(s) |-> LowerChar(s[i])]

\* the literal list of line 65-68, each address shortened to its first letters
AdminEmailLiterals ==
  << <<"s", "a", "m">>, <<"t", "e", "s", "t">>, <<"s", "u", "p">> >>

ADMIN_EMAILS == [i \in 1..Len(AdminEmailLiterals) |-> ToLowerCase(AdminEmailLiterals[i])]

\* Array.prototype.includes
Includes(seq, x) == \E i \in 1..Len(seq) : seq[i] = x

\* points granted to a newly created profile
InitialGrant == 5000

\* POINTS_CONFIG, the costs passed to deductPoints
LiveConversationStart == 50
LowLatencyMessage == 5

\* amounts the children pass to deductPoints
Amounts == {LowLatencyMessage, LiveConversationStart}

\* (tier, points) pairs the checkout collaborator reports
Offers == {[tier |-> "Premium", points |-> 1000]}

\* defaultProfileInfo of line 123
DefaultProfileInfo ==
  [k \in {"Name", "Location", "Interests"} |->
     CASE k = "Name" -> "Padi"
       [] k = "Location" -> "the cloud"
       [] OTHER -> "learning new things and chatting"]

\* object spread { ...a, ...b }
Spread(a, b) ==
  [k \in (DOMAIN a) \cup (DOMAIN b) |-> IF k \in DOMAIN b THEN b[k] ELSE a[k]]

\* the ai_profile_info literal of lines 93 and 150
FullDefaultInfo == Spread(DefaultProfileInfo, [k \in {"language"} |-> "English"])

\* !obj.key : the key is missing or holds the empty string
Falsy(info, k) == k \notin DOMAIN info \/ info[k] = ""

\* obj.language || 'English'
LanguageOr(info) == IF Falsy(info, "language") THEN "English" ELSE info["language"]

Null == [id |-> "null"]
NoRow == [id |-> "none"]
NoReq == [kind |-> "none"]

\* the default session literal of lines 89-95
ProvisionalDefaults ==
  [tier |-> "Free", points |-> 0, is_admin |-> FALSE,
   ai_profile_info |-> FullDefaultInfo, basket_items |-> <<>>]

VARIABLES
  authUser,     \* the identity the authentication provider holds, or "none"
  currentUser,  \* React state currentUser: a session record or Null
  profiles,     \* table profiles: identity -> row or NoRow
  hyds,         \* running fetchAndHydrateProfile invocations
  calls,        \* handler invocations suspended at their await
  chatHistory,  \* React state chatHistory
  messages,     \* table messages, in created_at order
  fetches,      \* running fetchHistory invocations
  channel,      \* identity the mounted realtime channel filters on, or "none"
  events,       \* realtime payloads on their way to handleRealtimeUpdate
  nev,          \* external events so far
  hydrated,     \* history: currentUser was last set from a profile row
  last          \* the step taken last: operation, request, returned value

vars == <<authUser, currentUser, profiles, hyds, calls, chatHistory, messages,
          fetches, channel, events, nev, hydrated, last>>
chatVars == <<chatHistory, messages, fetches, channel, events>>

Remove(seq, i) == SubSeq(seq, 1, i - 1) \o SubSeq(seq, i + 1, Len(seq))

CurId == currentUser.id

\* what a step records in last
Step(op, req, ok, solo) == [op |-> op, req |-> req, ok |-> ok, solo |-> solo]
Quiet == Step("quiet", NoReq, TRUE, FALSE)

\* initialMessage of line 56 and the welcome placeholder of lines 193 and 248
\* (a message without id carries id 0; the store assigns ids from 1)
initialMessage == [id |-> 0, user_id |-> "none", content |-> "signin"]
welcomeMessage == [id |-> 0, user_id |-> "none", content |-> "welcome"]

(* ---------------------------------------------------------------------- *)
(* Effects that re-run when currentUser?.id changes (lines 109-173 and     *)
(* 176-232)                                                                *)
(* ---------------------------------------------------------------------- *)
NewHyd == [pc |-> "getUser", user |-> "none", profile |-> NoRow,
           info |-> <<>>, err |-> "none"]

\* Effect 2: a changed, present id starts fetchAndHydrateProfile
ProfileEffect(newId, hbase) ==
  IF newId # CurId /\ newId # "null" THEN Append(hbase, NewHyd) ELSE hbase

\* fetchHistory() just called: the select is on its way to the store
NewFetch(uid) == [uid |-> uid, st |-> "sent", data |-> <<>>]

\* chat history listener (lines 176-232): the cleanup of the previous run removes
\* its channel, whose undelivered payloads are dropped; then the new run resets
\* the transcript when there is no id, else calls fetchHistory and subscribes
ChatEffect(newId) ==
  IF newId = CurId
    THEN UNCHANGED <<chatHistory, fetches, channel, events>>
    ELSE /\ events' = <<>>
         /\ IF newId = "null"
              THEN /\ chatHistory' = <<initialMessage>>
                   /\ channel' = "none"
                   /\ UNCHANGED fetches
              ELSE /\ fetches' = Append(fetches, NewFetch(newId))
                   /\ channel' = newId
                   /\ UNCHANGED chatHistory

\* setCurrentUser(u) followed by the render and its effects
SetUser(u, hbase) ==
  /\ currentUser' = u
  /\ hyds' = ProfileEffect(u.id, hbase)
  /\ ChatEffect(u.id)

(* ---------------------------------------------------------------------- *)
(* Effect 1: onAuthStateChange (lines 84-106)                              *)
(* ---------------------------------------------------------------------- *)
ProvisionalSession(prev, id) ==
  IF prev = Null
    THEN [id |-> id, email |-> EmailOf(id), language |-> "English",
          tier |-> ProvisionalDefaults.tier, points |-> ProvisionalDefaults.points,
          is_admin |-> ProvisionalDefaults.is_admin,
          ai_profile_info |-> ProvisionalDefaults.ai_profile_info,
          basket_items |-> ProvisionalDefaults.basket_items]
    ELSE [prev EXCEPT !.id = id, !.email = EmailOf(id),
                      !.language = IF prev.language = "" THEN "English" ELSE prev.language]

SignedIn(id) ==
  /\ nev < MaxEvents
  /\ nev' = nev + 1
  /\ authUser' = id
  /\ SetUser(ProvisionalSession(currentUser, id), hyds)
  /\ hydrated' = (hydrated /\ currentUser # Null /\ CurId = id)
  /\ last' = Quiet
  /\ UNCHANGED <<profiles, calls, messages>>

SignedOut ==
  /\ nev < MaxEvents
  /\ authUser # "none"
  /\ nev' = nev + 1
  /\ authUser' = "none"
  /\ SetUser(Null, hyds)
  /\ hydrated' = FALSE
  /\ last' = Quiet
  /\ UNCHANGED <<profiles, calls, messages>>

(* ---------------------------------------------------------------------- *)
(* fetchAndHydrateProfile (lines 111-171)                                  *)
(* ---------------------------------------------------------------------- *)
\* { ...profile, email: user.email, language: profile.ai_profile_info?.language || 'English' }
SessionOf(profile, user) ==
  [id |-> profile.id, email |-> EmailOf(user),
   language |-> LanguageOr(profile.ai_profile_info),
   tier |-> profile.tier, points |-> profile.points, is_admin |-> profile.is_admin,
   ai_profile_info |-> profile.ai_profile_info, basket_items |-> profile.basket_items]

\* line 125
NeedsUpdate(info) ==
  Falsy(info, "Name") \/ Falsy(info, "Location") \/ Falsy(info, "Interests")
    \/ Falsy(info, "language")

\* lines 128-132
UpdatedAiInfo(info) ==
  Spread(Spread(DefaultProfileInfo, info), [k \in {"language"} |-> LanguageOr(info)])

\* line 144 without the toLowerCase() of the address
IsAdminEmailCaseSensitive(email) == Includes(ADMIN_EMAILS, email)

\* line 144
IsAdminEmail(email) == Includes(ADMIN_EMAILS, ToLowerCase(email))

\* lines 145-152
NewUserProfile(user) ==
  [id |-> user,
   tier |-> IF IsAdminEmail(EmailOf(user)) THEN "Admin" ELSE "Free",
   points |-> InitialGrant,
   is_admin |-> IsAdminEmail(EmailOf(user)),
   ai_profile_info |-> FullDefaultInfo,
   basket_items |-> <<>>]

\* lines 112-120: supabase.auth.getUser(), return when there is no user, else
\* issue the select
HydGetUser(i) ==
  /\ hyds[i].pc = "getUser"
  /\ hyds' = IF authUser = "none"
               THEN Remove(hyds, i)
               ELSE [hyds EXCEPT ![i].pc = "select", ![i].user = authUser]
  /\ last' = Quiet
  /\ UNCHANGED <<hydrated, authUser, currentUser, profiles, calls, chatVars, nev>>

\* lines 116-157: the select answers (a failed request and a missing row both
\* leave profile null) and the code runs up to its next await or its end
HydSelected(i) ==
  LET h == hyds[i] IN
  /\ h.pc = "select"
  /\ \E fail \in BOOLEAN :
       LET profile == IF fail THEN NoRow ELSE profiles[h.user] IN
       IF profile # NoRow
         THEN IF NeedsUpdate(profile.ai_profile_info)
                THEN /\ hyds' = [hyds EXCEPT ![i].pc = "backfill", ![i].profile = profile,
                                   ![i].info = UpdatedAiInfo(profile.ai_profile_info)]
                     /\ last' = Quiet
                     /\ UNCHANGED <<currentUser, chatVars, hydrated>>
                ELSE /\ SetUser(SessionOf(profile, h.user), Remove(hyds, i))
                     /\ hydrated' = TRUE
                     /\ last' = Step("hydrated", [h EXCEPT !.profile = profile], TRUE, FALSE)
                     /\ UNCHANGED messages
         ELSE /\ hyds' = [hyds EXCEPT ![i].pc = "insert",
                                      ![i].profile = NewUserProfile(h.user)]
              /\ last' = Quiet
              /\ UNCHANGED <<currentUser, chatVars, hydrated>>
  /\ UNCHANGED <<authUser, profiles, calls, nev>>

\* lines 133-142: update({ai_profile_info}).eq('id').select().single() answers,
\* then profile = updatedProfile || {...profile, ai_profile_info} and setCurrentUser
HydBackfilled(i) ==
  LET h == hyds[i] IN
  /\ h.pc = "backfill"
  /\ \E fail \in BOOLEAN :
       LET ok == ~fail /\ profiles[h.user] # NoRow IN
       /\ profiles' = IF ok THEN [profiles EXCEPT ![h.user].ai_profile_info = h.info]
                      ELSE profiles
       /\ SetUser(SessionOf(IF ok THEN profiles'[h.user]
                            ELSE [h.profile EXCEPT !.ai_profile_info = h.info], h.user),
                  Remove(hyds, i))
       /\ hydrated' = TRUE
       /\ last' = Step("hydrated", h, ok, FALSE)
  /\ UNCHANGED <<authUser, calls, messages, nev>>

\* lines 153-163: insert([newUserProfile]).select().single() answers (the primary
\* key rejects a second row of the same id); an error is thrown, caught and logged
HydInserted(i) ==
  LET h == hyds[i] IN
  /\ h.pc = "insert"
  /\ \E fail \in BOOLEAN :
       LET err == IF fail THEN "error"
                  ELSE IF profiles[h.user] # NoRow THEN "conflict" ELSE "none"
       IN
       IF err # "none"
         THEN /\ hyds' = Remove(hyds, i)
              /\ last' = Step("inserted", [h EXCEPT !.err = err], FALSE, FALSE)
              /\ UNCHANGED <<currentUser, profiles, chatVars, hydrated>>
         ELSE /\ profiles' = [profiles EXCEPT ![h.user] = h.profile]
              /\ SetUser(SessionOf(h.profile, h.user), Remove(hyds, i))
              /\ hydrated' = TRUE
              /\ last' = Step("inserted", h, TRUE, FALSE)
              /\ UNCHANGED messages
  /\ UNCHANGED <<authUser, calls, nev>>

Hydrate ==
  \E i \in 1..Len(hyds) :
    \/ HydGetUser(i)
    \/ HydSelected(i)
    \/ HydBackfilled(i)
    \/ HydInserted(i)


(* ---------------------------------------------------------------------- *)
(* Ledger: deductPoints (lines 280-302), handleCheckoutSuccess (310-329)   *)
(* ---------------------------------------------------------------------- *)
\* what a suspended handler holds in its closure
Req(kind, id, amount, base, newPoints, tier) ==
  [kind |-> kind, id |-> id, amount |-> amount, base |-> base,
   newPoints |-> newPoints, tier |-> tier, st |-> "sent", data |-> NoRow]

\* line 281: !currentUser || currentUser.is_admin
Exempt(user) == user = Null \/ user.is_admin

\* line 282 with the comparison reversed
InsufficientReversed(user, amount) == user.points > amount

\* line 282 with the balance check left out
InsufficientNever(user, amount) == FALSE

\* line 282: currentUser.points < amount
Insufficient(user, amount) == user.points < amount

\* line 288 with the sign slipped
NewPointsSignSlip(user, amount) == user.points + amount

\* line 288: currentUser.points - amount
NewPoints(user, amount) == user.points - amount

\* line 298 with the compensation left out
RollbackMissing(prev, amount) == prev

\* line 298: prev => prev ? { ...prev, points: prev.points + amount } : null
Rollback(prev, amount) ==
  IF prev = Null THEN Null ELSE [prev EXCEPT !.points = prev.points + amount]

\* lines 296-301: return false after an error, true otherwise
DebitReturn(error) == ~error

\* line 313 with the current balance left out
NewTotalPointsGrantOnly(user, points) == points

\* line 313: currentUser.points + points
NewTotalPoints(user, points) == user.points + points

\* line 323: prev => prev ? { ...prev, tier: data.tier, points: data.points } : null
ApplyCredit(prev, data) ==
  IF prev = Null THEN Null ELSE [prev EXCEPT !.tier = data.tier, !.points = data.points]

\* lines 280-294, up to the await
DebitCall(amount) ==
  /\ nev < MaxEvents
  /\ nev' = nev + 1
  /\ IF Exempt(currentUser)
       THEN /\ last' = Step("debitCall", Req("debit", CurId, amount, 0, 0, ""), TRUE, FALSE)
            /\ UNCHANGED <<currentUser, calls>>
       ELSE IF Insufficient(currentUser, amount)
         THEN /\ last' = Step("debitCall",
                              Req("debit", CurId, amount, currentUser.points, 0, ""),
                              FALSE, FALSE)
              /\ UNCHANGED <<currentUser, calls>>
         ELSE LET r == Req("debit", CurId, amount, currentUser.points,
                           NewPoints(currentUser, amount), "")
              IN /\ currentUser' = [currentUser EXCEPT !.points = r.newPoints]
                 /\ calls' = Append(calls, r)
                 /\ last' = Step("debitSent", r, TRUE, TRUE)
  /\ UNCHANGED <<hydrated, authUser, profiles, hyds, chatVars>>

\* lines 291-294 at the store: update({ points }).eq('id'); a request that
\* matches no row is no error
DebitStore(i) ==
  LET r == calls[i] IN
  /\ r.kind = "debit" /\ r.st = "sent"
  /\ \E fail \in BOOLEAN :
       /\ calls' = [calls EXCEPT ![i].st = IF fail THEN "err" ELSE "ok"]
       /\ profiles' = IF fail \/ profiles[r.id] = NoRow THEN profiles
                      ELSE [profiles EXCEPT ![r.id].points = r.newPoints]
  /\ last' = Step("store", r, calls'[i].st = "ok", last.op = "debitSent" /\ last.req = r)
  /\ UNCHANGED <<hydrated, authUser, currentUser, hyds, chatVars, nev>>

\* lines 296-301: the rollback after an error, or the success return
DebitDone(i) ==
  LET r == calls[i] IN
  /\ r.kind = "debit" /\ r.st # "sent"
  /\ calls' = Remove(calls, i)
  /\ currentUser' = IF r.st = "err" THEN Rollback(currentUser, r.amount) ELSE currentUser
  /\ last' = Step("debitDone", r, DebitReturn(r.st = "err"),
                  last.op = "store" /\ last.solo /\ last.req.newPoints = r.newPoints)
  /\ UNCHANGED <<hydrated, authUser, profiles, hyds, chatVars, nev>>

\* lines 310-319, up to the await
CreditCall(offer) ==
  /\ nev < MaxEvents
  /\ nev' = nev + 1
  /\ IF currentUser = Null
       THEN /\ last' = Quiet
            /\ UNCHANGED calls
       ELSE LET r == Req("credit", CurId, offer.points, currentUser.points,
                         NewTotalPoints(currentUser, offer.points), offer.tier)
            IN /\ calls' = Append(calls, r)
               /\ last' = Step("creditSent", r, TRUE, TRUE)
  /\ UNCHANGED <<hydrated, authUser, currentUser, profiles, hyds, chatVars>>

\* lines 314-319 with the store adding the grant to the points it holds instead of
\* taking the points the request carries
CreditStoreIncrement(i) ==
  LET r == calls[i] IN
  /\ r.kind = "credit" /\ r.st = "sent"
  /\ \E fail \in BOOLEAN :
       LET ok == ~fail /\ profiles[r.id] # NoRow IN
       /\ profiles' = IF ok THEN [profiles EXCEPT ![r.id].tier = r.tier,
                                                  ![r.id].points = @ + r.amount]
                      ELSE profiles
       /\ calls' = [calls EXCEPT ![i].st = IF ok THEN "ok" ELSE "err",
                                 ![i].data = IF ok THEN profiles'[r.id] ELSE NoRow]
  /\ last' = Step("store", r, calls'[i].st = "ok", last.op = "creditSent" /\ last.req = r)
  /\ UNCHANGED <<hydrated, authUser, currentUser, hyds, chatVars, nev>>

\* lines 314-319 at the store: update({ tier, points }).eq('id').select().single();
\* single() reports an error when no row matched
CreditStore(i) ==
  LET r == calls[i] IN
  /\ r.kind = "credit" /\ r.st = "sent"
  /\ \E fail \in BOOLEAN :
       LET ok == ~fail /\ profiles[r.id] # NoRow IN
       /\ profiles' = IF ok THEN [profiles EXCEPT ![r.id].tier = r.tier,
                                                  ![r.id].points = r.newPoints]
                      ELSE profiles
       /\ calls' = [calls EXCEPT ![i].st = IF ok THEN "ok" ELSE "err",
                                 ![i].data = IF ok THEN profiles'[r.id] ELSE NoRow]
  /\ last' = Step("store", r, calls'[i].st = "ok", last.op = "creditSent" /\ last.req = r)
  /\ UNCHANGED <<hydrated, authUser, currentUser, hyds, chatVars, nev>>

\* lines 321-327: throw on error, else the local update from the returned row
CreditDone(i) ==
  LET r == calls[i] IN
  /\ r.kind = "credit" /\ r.st # "sent"
  /\ calls' = Remove(calls, i)
  /\ currentUser' = IF r.st = "ok" THEN ApplyCredit(currentUser, r.data) ELSE currentUser
  /\ last' = Step("creditDone", r, r.st = "ok",
                  last.op = "store" /\ last.solo /\ last.req.newPoints = r.newPoints)
  /\ UNCHANGED <<hydrated, authUser, profiles, hyds, chatVars, nev>>

Ledger ==
  \/ \E amount \in Amounts : DebitCall(amount)
  \/ \E offer \in Offers : CreditCall(offer)
  \/ \E i \in 1..Len(calls) :
       DebitStore(i) \/ DebitDone(i) \/ CreditStore(i) \/ CreditDone(i)

(* ---------------------------------------------------------------------- *)
(* Other sessions of the same identities (other tabs, other devices)       *)
(* running the same code against the same store                            *)
(* ---------------------------------------------------------------------- *)
\* another session's hydration inserting the row (lines 153-157)
OtherInsert(id) ==
  /\ nev < MaxEvents
  /\ profiles[id] = NoRow
  /\ nev' = nev + 1
  /\ profiles' = [profiles EXCEPT ![id] = NewUserProfile(id)]
  /\ last' = Quiet
  /\ UNCHANGED <<hydrated, authUser, currentUser, hyds, calls, chatVars>>

\* another session's debit reaching the store (lines 291-294)
OtherDebit(id, amount) ==
  /\ nev < MaxEvents
  /\ profiles[id] # NoRow
  /\ ~profiles[id].is_admin
  /\ profiles[id].points >= amount
  /\ nev' = nev + 1
  /\ profiles' = [profiles EXCEPT ![id].points = @ - amount]
  /\ last' = Quiet
  /\ UNCHANGED <<hydrated, authUser, currentUser, hyds, calls, chatVars>>

Other ==
  \E id \in Ids : OtherInsert(id) \/ OtherDebit(id, LiveConversationStart)

(* ---------------------------------------------------------------------- *)
(* Initial states: nobody signed in; the store holds no row, or rows       *)
(* created by earlier sessions                                             *)
(* ---------------------------------------------------------------------- *)
\* a row written by an older client: ai_profile_info lacks the language key
LegacyRow(id, points) ==
  [NewUserProfile(id) EXCEPT !.points = points, !.ai_profile_info = DefaultProfileInfo]

InitRows(id) ==
  IF IsAdminEmail(EmailOf(id)) THEN {NoRow} ELSE {NoRow, LegacyRow(id, 30)}

Init ==
  /\ authUser = "none"
  /\ currentUser = Null
  /\ profiles \in {f \in [Ids -> UNION {InitRows(id) : id \in Ids}] :
                     \A id \in Ids : f[id] \in InitRows(id)}
  /\ hyds = <<>>
  /\ calls = <<>>
  /\ chatHistory = <<initialMessage>>
  /\ messages = <<>>
  /\ fetches = <<>>
  /\ channel = "none"
  /\ events = <<>>
  /\ nev = 0
  /\ hydrated = FALSE
  /\ last = Quiet

Auth == SignedOut \/ \E id \in Ids : SignedIn(id)

\* the session, hydration, the ledger and the other sessions of the store
Next == Auth \/ Hydrate \/ Ledger \/ Other

Spec == Init /\ [][Next]_vars


(* ---------------------------------------------------------------------- *)
(* Properties of the ledger and of hydration, checked under Spec           *)
(* ---------------------------------------------------------------------- *)
\* the step just taken is the response of a debit whose persist succeeded / failed
DebitPersisted == last.op = "debitDone" /\ last.req.st = "ok"
DebitFailed == last.op = "debitDone" /\ last.req.st = "err"

\* C1 as stated: when a debit of a non-admin session returns after a successful
\* persist, the local points of the session (still that of the same identity)
\* are the pre-debit points minus the amount and the persisted points equal the
\* local points.
C1_DebitPostState ==
  (DebitPersisted /\ CurId = last.req.id /\ profiles[last.req.id] # NoRow) =>
    /\ last.ok = TRUE
    /\ currentUser.points = last.req.base - last.req.amount
    /\ profiles[last.req.id].points = currentUser.points

\* C1 amended: a debit whose persist succeeded returns success, and the store
\* holds the pre-debit points minus the amount once it has applied the write;
\* when no other step came between the optimistic decrement and the return and
\* the identity has a profile row, the local points at the return are the
\* pre-debit points minus the amount and the persisted points equal them.
C1_DebitUndisturbed ==
  /\ (last.op = "store" /\ last.req.kind = "debit" /\ last.ok
        /\ profiles[last.req.id] # NoRow) =>
       profiles[last.req.id].points = last.req.base - last.req.amount
  /\ DebitPersisted =>
       /\ last.ok = TRUE
       /\ (last.solo /\ profiles[last.req.id] # NoRow) =>
            /\ currentUser # Null
            /\ currentUser.points = last.req.base - last.req.amount
            /\ profiles[last.req.id].points = currentUser.points

C1_Witness ==
  /\ DebitPersisted /\ last.solo /\ last.ok = TRUE
  /\ profiles[last.req.id] # NoRow
  /\ currentUser.points = last.req.base - last.req.amount
  /\ profiles[last.req.id].points = currentUser.points

\* C2 as stated: after a failed persist the debit returns failure and the local
\* points equal the points held just before the optimistic decrement, whatever
\* completed in between.
C2_RollbackRestoresSnapshot ==
  (DebitFailed /\ currentUser # Null) =>
    /\ last.ok = FALSE
    /\ currentUser.points = last.req.base

\* C2 amended: after a failed persist the debit returns failure and its handler
\* adds the amount back to the local points held at that moment (an absent
\* session stays absent); the result is the pre-debit balance when no other
\* step came between the decrement and the failure response.
C2_RollbackCompensates ==
  /\ [](DebitFailed =>
          /\ last.ok = FALSE
          /\ (last.solo /\ currentUser # Null) => currentUser.points = last.req.base)
  /\ [][(last'.op = "debitDone" /\ last'.req.st = "err") =>
          currentUser' = IF currentUser = Null THEN Null
                         ELSE [currentUser EXCEPT !.points = @ + last'.req.amount]]_vars

C2_Witness ==
  /\ DebitFailed /\ last.solo /\ last.ok = FALSE
  /\ currentUser # Null
  /\ currentUser.points = last.req.base

\* C3: a debit call of a present non-admin session with amount > local points
\* returns failure, suspends no request, and changes neither the session nor
\* the profile rows.
C3_InsufficientRejected ==
  [][(/\ nev' # nev
      /\ last'.op \in {"debitCall", "debitSent"}
      /\ currentUser # Null
      /\ ~currentUser.is_admin
      /\ last'.req.amount > currentUser.points) =>
        (/\ last'.op = "debitCall"
         /\ last'.ok = FALSE
         /\ calls' = calls
         /\ currentUser' = currentUser
         /\ profiles' = profiles)]_vars

C3_Witness ==
  /\ last.op = "debitCall" /\ last.ok = FALSE
  /\ currentUser # Null /\ ~currentUser.is_admin
  /\ currentUser.points > 0
  /\ last.req.amount > currentUser.points

\* C4 as stated: every debit call of a session whose identity is an
\* administrator returns success at once, in the provisional state too.
C4_AdminDebitSucceeds ==
  (/\ last.op \in {"debitCall", "debitSent"}
   /\ currentUser # Null
   /\ \E i \in 1..Len(AdminEmailLiterals) :
        ToLowerCase(currentUser.email) = ToLowerCase(AdminEmailLiterals[i])) =>
    (last.op = "debitCall" /\ last.ok = TRUE)

\* C5: the points of a non-admin session and of every non-admin profile row
\* are never negative.
C5_PointsNonNegative ==
  /\ (currentUser # Null /\ ~currentUser.is_admin) => currentUser.points >= 0
  /\ \A id \in Ids :
       (profiles[id] # NoRow /\ ~profiles[id].is_admin) => profiles[id].points >= 0

C5_Witness ==
  /\ DebitPersisted
  /\ currentUser # Null /\ ~currentUser.is_admin
  /\ profiles[CurId] # NoRow /\ ~profiles[CurId].is_admin
  /\ currentUser.points < LiveConversationStart
  /\ profiles[CurId].points = currentUser.points

\* C7 as stated: when the insert of a hydration is rejected because the row
\* already exists, the session ends up equal to the existing row.
C7_ConflictUsesExistingRow ==
  (last.op = "inserted" /\ last.req.err = "conflict") =>
    /\ currentUser # Null
    /\ CurId = last.req.user
    /\ currentUser.tier = profiles[last.req.user].tier
    /\ currentUser.points = profiles[last.req.user].points
    /\ currentUser.is_admin = profiles[last.req.user].is_admin

\* C8: a row created by hydration has is_admin true exactly when the address
\* matches an allow-list entry without regard to case, tier Admin exactly when
\* is_admin, and 5000 points; when the insert succeeds the session takes the
\* tier, is_admin and points of that row.
C8_NewProfileDefaults ==
  (last.op = "inserted" /\ last.ok) =>
    LET row == last.req.profile
        addr == EmailOf(last.req.user)
        listed == \E i \in 1..Len(AdminEmailLiterals) :
                    /\ Len(AdminEmailLiterals[i]) = Len(addr)
                    /\ \A j \in 1..Len(addr) :
                         LowerChar(addr[j]) = LowerChar(AdminEmailLiterals[i][j])
    IN /\ row.is_admin = listed
       /\ row.tier = (IF listed THEN "Admin" ELSE "Free")
       /\ row.points = 5000
       /\ currentUser # Null
       /\ currentUser.tier = row.tier
       /\ currentUser.is_admin = row.is_admin
       /\ currentUser.points = row.points

C8_Witness ==
  /\ last.op = "inserted" /\ last.ok
  /\ EmailOf(last.req.user) # ToLowerCase(EmailOf(last.req.user))
  /\ currentUser.is_admin /\ currentUser.tier = "Admin" /\ currentUser.points = 5000

\* C9: a successful update of a credit leaves the profile row, when the store
\* applies it, with the points the session had when the credit was issued plus
\* the grant and with the given tier, and its response leaves the session (if
\* one is present) with those points and that tier; the response of a failed
\* update leaves the session as it was.
C9_CreditApplied ==
  /\ []((last.op = "store" /\ last.req.kind = "credit" /\ last.ok) =>
          /\ profiles[last.req.id].points = last.req.base + last.req.amount
          /\ profiles[last.req.id].tier = last.req.tier)
  /\ []((last.op = "creditDone" /\ last.req.st = "ok" /\ currentUser # Null) =>
          /\ currentUser.points = last.req.base + last.req.amount
          /\ currentUser.tier = last.req.tier)
  /\ [][(last'.op = "creditDone" /\ last'.req.st = "err") =>
          currentUser' = currentUser]_vars

C9_Witness ==
  /\ last.op = "creditDone" /\ last.req.st = "ok" /\ last.solo
  /\ currentUser # Null
  /\ last.req.base > 0
  /\ currentUser.points = last.req.base + 1000
  /\ currentUser.tier = "Premium"
  /\ profiles[CurId].points = currentUser.points
  /\ profiles[CurId].tier = "Premium"


(* ---------------------------------------------------------------------- *)
(* Transcript: fetchHistory and handleRealtimeUpdate (lines 182-213),      *)
(* handleClearHistory (243-252), addMessages (254-267),                    *)
(* updateStreamedMessage (269-277)                                         *)
(* ---------------------------------------------------------------------- *)
\* number of messages one addMessages call inserts
MaxBatch == 2

\* contents written by updateStreamedMessage while a reply streams
Contents == {"x", "y"}

\* the id the store assigns to the j-th message inserted by external event k
MsgId(k, j) == MaxBatch * (k - 1) + j

\* rows of table messages owned by uid, in created_at order (lines 183-187)
OwnedBy(uid) == SelectSeq(messages, LAMBDA m : m.user_id = uid)

\* payloads of the rows, sent on the mounted channel when its filter matches
Payloads(type, rows) ==
  [k \in 1..Len(rows) |-> [eventType |-> type, new |-> rows[k]]]
Published(type, rows, uid) ==
  IF channel = uid THEN events \o Payloads(type, rows) ELSE events

\* lines 205-208 with the new message put first
InsertAtFront(prev, payload) ==
  IF payload.eventType = "INSERT"
    THEN IF \E k \in 1..Len(prev) : prev[k].id = payload.new.id
           THEN prev
           ELSE <<payload.new>> \o prev
  ELSE IF payload.eventType = "UPDATE"
    THEN [k \in 1..Len(prev) |->
            IF prev[k].id = payload.new.id THEN payload.new ELSE prev[k]]
    ELSE prev

\* line 211 with the updated message moved to the end
UpdateMovesToEnd(prev, payload) ==
  IF payload.eventType = "INSERT"
    THEN IF \E k \in 1..Len(prev) : prev[k].id = payload.new.id
           THEN prev
           ELSE Append(prev, payload.new)
  ELSE IF payload.eventType = "UPDATE"
    THEN IF \E k \in 1..Len(prev) : prev[k].id = payload.new.id
           THEN Append(SelectSeq(prev, LAMBDA m : m.id # payload.new.id), payload.new)
           ELSE prev
    ELSE prev

\* lines 205-208 with the lookup of the id left out
InsertWithoutLookup(prev, payload) ==
  IF payload.eventType = "INSERT" THEN Append(prev, payload.new)
  ELSE IF payload.eventType = "UPDATE"
    THEN [k \in 1..Len(prev) |->
            IF prev[k].id = payload.new.id THEN payload.new ELSE prev[k]]
    ELSE prev

\* lines 202-213: the new chatHistory computed from prev and the payload
HandleRealtimeUpdate(prev, payload) ==
  IF payload.eventType = "INSERT"
    THEN IF \E k \in 1..Len(prev) : prev[k].id = payload.new.id
           THEN prev
           ELSE Append(prev, payload.new)
  ELSE IF payload.eventType = "UPDATE"
    THEN [k \in 1..Len(prev) |->
            IF prev[k].id = payload.new.id THEN payload.new ELSE prev[k]]
    ELSE prev

\* lines 183-187 at the store: the select answers with the rows or an error
FetchStore(i) ==
  LET f == fetches[i] IN
  /\ f.st = "sent"
  /\ \E fail \in BOOLEAN :
       fetches' = [fetches EXCEPT ![i].st = IF fail THEN "err" ELSE "ok",
                                  ![i].data = IF fail THEN <<>> ELSE OwnedBy(f.uid)]
  /\ last' = Quiet
  /\ UNCHANGED <<hydrated, authUser, currentUser, profiles, hyds, calls, chatHistory, messages,
                 channel, events, nev>>

\* lines 189-197: the response of the select
FetchDone(i) ==
  LET f == fetches[i] IN
  /\ f.st # "sent"
  /\ fetches' = Remove(fetches, i)
  /\ chatHistory' = IF f.st = "err" THEN chatHistory
                    ELSE IF Len(f.data) = 0 THEN <<welcomeMessage>> ELSE f.data
  /\ last' = Step("fetched", f, f.st = "ok", FALSE)
  /\ UNCHANGED <<hydrated, authUser, currentUser, profiles, hyds, calls, messages, channel,
                 events, nev>>

\* the realtime client hands the oldest payload to handleRealtimeUpdate; the
\* feed may deliver a payload more than once (again = TRUE keeps it queued)
Deliver(again) ==
  /\ Len(events) > 0
  /\ chatHistory' = HandleRealtimeUpdate(chatHistory, Head(events))
  /\ events' = IF again THEN events ELSE Tail(events)
  /\ last' = Step("delivered", Head(events), chatHistory' # chatHistory, FALSE)
  /\ UNCHANGED <<hydrated, authUser, currentUser, profiles, hyds, calls, messages, fetches,
                 channel, nev>>

\* lines 254-260, up to the await
AddMessagesCall(n) ==
  /\ nev < MaxEvents
  /\ nev' = nev + 1
  /\ calls' = IF currentUser = Null THEN calls
              ELSE Append(calls, [kind |-> "add", id |-> CurId, n |-> n, k |-> nev'])
  /\ last' = Quiet
  /\ UNCHANGED <<hydrated, authUser, currentUser, profiles, hyds, chatVars>>

\* lines 260-266: insert(messagesToInsert).select() answers; the rows go to the
\* caller, and the store publishes an INSERT payload for each
AddMessagesDone(i) ==
  LET r == calls[i]
      rows == [j \in 1..r.n |-> [id |-> MsgId(r.k, j), user_id |-> r.id, content |-> "new"]]
  IN
  /\ r.kind = "add"
  /\ calls' = Remove(calls, i)
  /\ \E fail \in BOOLEAN :
       IF fail THEN UNCHANGED <<messages, events>>
       ELSE /\ messages' = messages \o rows
            /\ events' = Published("INSERT", rows, r.id)
  /\ last' = Quiet
  /\ UNCHANGED <<hydrated, authUser, currentUser, profiles, hyds, chatHistory, fetches, channel, nev>>

\* lines 269-272, up to the await, for a message of the session's identity
UpdateStreamedCall(id, content) ==
  /\ nev < MaxEvents
  /\ currentUser # Null
  /\ \E k \in 1..Len(messages) : messages[k].id = id /\ messages[k].user_id = CurId
  /\ nev' = nev + 1
  /\ calls' = Append(calls, [kind |-> "upd", id |-> id, content |-> content])
  /\ last' = Quiet
  /\ UNCHANGED <<hydrated, authUser, currentUser, profiles, hyds, chatVars>>

\* lines 272-276: update({ content }).eq('id', id) answers; the store publishes
\* an UPDATE payload for the row it changed
UpdateStreamedDone(i) ==
  LET r == calls[i]
      hit == {k \in 1..Len(messages) : messages[k].id = r.id}
  IN
  /\ r.kind = "upd"
  /\ calls' = Remove(calls, i)
  /\ \E fail \in BOOLEAN :
       IF fail \/ hit = {} THEN UNCHANGED <<messages, events>>
       ELSE LET k == CHOOSE k \in hit : TRUE
                row == [messages[k] EXCEPT !.content = r.content]
            IN /\ messages' = [messages EXCEPT ![k] = row]
               /\ events' = Published("UPDATE", <<row>>, row.user_id)
  /\ last' = Quiet
  /\ UNCHANGED <<hydrated, authUser, currentUser, profiles, hyds, chatHistory, fetches, channel, nev>>

\* lines 243-246, up to the await
ClearCall ==
  /\ nev < MaxEvents
  /\ nev' = nev + 1
  /\ calls' = IF currentUser = Null THEN calls
              ELSE Append(calls, [kind |-> "clear", id |-> CurId, st |-> "sent", n |-> 0])
  /\ last' = Quiet
  /\ UNCHANGED <<hydrated, authUser, currentUser, profiles, hyds, chatVars>>

\* line 246 at the store: delete().eq('user_id', id)
ClearStore(i) ==
  LET r == calls[i] IN
  /\ r.kind = "clear" /\ r.st = "sent"
  /\ \E fail \in BOOLEAN :
       /\ calls' = [calls EXCEPT ![i].st = IF fail THEN "err" ELSE "ok",
                                 ![i].n = IF fail THEN 0 ELSE Len(OwnedBy(r.id))]
       /\ messages' = IF fail THEN messages
                      ELSE SelectSeq(messages, LAMBDA m : m.user_id # r.id)
  /\ last' = Step("clearStore", calls'[i], calls'[i].st = "ok", FALSE)
  /\ UNCHANGED <<hydrated, authUser, currentUser, profiles, hyds, chatHistory, fetches, channel,
                 events, nev>>

\* lines 247-251 with the placeholder set whatever the delete answered
AfterClearAlways(prev, error) == <<welcomeMessage>>

\* lines 247-251: throw on error, else setChatHistory([placeholder])
AfterClear(prev, error) == IF error THEN prev ELSE <<welcomeMessage>>

\* lines 247-251: the response of the delete
ClearDone(i) ==
  LET r == calls[i] IN
  /\ r.kind = "clear" /\ r.st # "sent"
  /\ calls' = Remove(calls, i)
  /\ chatHistory' = AfterClear(chatHistory, r.st = "err")
  /\ last' = Step("cleared", r, r.st = "ok", FALSE)
  /\ UNCHANGED <<hydrated, authUser, currentUser, profiles, hyds, messages, fetches, channel,
                 events, nev>>

\* another session of the identity appending a message (lines 254-260)
OtherAddMessage(uid) ==
  /\ nev < MaxEvents
  /\ nev' = nev + 1
  /\ LET row == [id |-> MsgId(nev', 1), user_id |-> uid, content |-> "new"] IN
       /\ messages' = Append(messages, row)
       /\ events' = Published("INSERT", <<row>>, uid)
  /\ last' = Quiet
  /\ UNCHANGED <<hydrated, authUser, currentUser, profiles, hyds, calls, chatHistory, fetches,
                 channel>>

Transcript ==
  \/ \E i \in 1..Len(fetches) : FetchStore(i) \/ FetchDone(i)
  \/ \E again \in BOOLEAN : Deliver(again)
  \/ \E n \in 1..MaxBatch : AddMessagesCall(n)
  \/ \E id \in 1..(MaxBatch * MaxEvents), content \in Contents : UpdateStreamedCall(id, content)
  \/ ClearCall
  \/ \E i \in 1..Len(calls) :
       AddMessagesDone(i) \/ UpdateStreamedDone(i) \/ ClearStore(i) \/ ClearDone(i)
  \/ \E uid \in Ids : OtherAddMessage(uid)

\* the session and the transcript.  Hydration is left out of this specification:
\* it reaches the transcript only by changing currentUser.id, and every such
\* change (absent to an id, one id to another) is also made by the
\* authentication events
NextChat == Auth \/ Transcript

\* the profile rows play no part in the transcript: start from an empty table
InitChat == Init /\ \A id \in Ids : profiles[id] = NoRow

SpecChat == InitChat /\ [][NextChat]_vars

(* ---------------------------------------------------------------------- *)
(* Properties of the transcript, checked under SpecChat                    *)
(* ---------------------------------------------------------------------- *)
\* C6: the local transcript never holds two entries with the same message id.
C6_OneEntryPerId ==
  \A i, j \in 1..Len(chatHistory) :
    (i # j /\ chatHistory[i].id # 0) => chatHistory[i].id # chatHistory[j].id

\* an INSERT payload was delivered for an id the transcript already held, and
\* the transcript still holds that id once
C6_Witness ==
  /\ last.op = "delivered" /\ last.req.eventType = "INSERT" /\ ~last.ok
  /\ Cardinality({i \in 1..Len(chatHistory) : chatHistory[i].id = last.req.new.id}) = 1


\* C13: a successful delete of a clear leaves, when the store applies it, no row
\* owned by the identity, and its response leaves the local transcript as the
\* single placeholder; the response of a failed delete leaves the local
\* transcript as it was.
C13_ClearResets ==
  /\ []((last.op = "clearStore" /\ last.ok) => OwnedBy(last.req.id) = <<>>)
  /\ []((last.op = "cleared" /\ last.ok) => chatHistory = <<welcomeMessage>>)
  /\ [][(last'.op = "cleared" /\ ~last'.ok) => chatHistory' = chatHistory]_vars

\* a clear that deleted stored messages has answered
C13_Witness ==
  /\ last.op = "cleared" /\ last.ok /\ last.req.n > 0
  /\ chatHistory = <<welcomeMessage>>
  /\ OwnedBy(last.req.id) = <<>>

\* C15: the delivery of an UPDATE payload for id X keeps the length of the local
\* transcript and every entry whose id is not X in its position, and puts the
\* payload's row in the position of every entry whose id is X; with no such
\* entry the transcript is unchanged.
C15_UpdateInPlace ==
  [][(last'.op = "delivered" /\ last'.req.eventType = "UPDATE") =>
       LET new == last'.req.new IN
       /\ Len(chatHistory') = Len(chatHistory)
       /\ \A k \in 1..Len(chatHistory) :
            chatHistory'[k] = IF chatHistory[k].id = new.id THEN new ELSE chatHistory[k]
       /\ (\A k \in 1..Len(chatHistory) : chatHistory[k].id # new.id) =>
            chatHistory' = chatHistory]_vars

\* an UPDATE payload changed an entry that is not the last of the transcript
C15_Witness ==
  /\ last.op = "delivered" /\ last.req.eventType = "UPDATE" /\ last.ok
  /\ \E k \in 1..(Len(chatHistory) - 1) : chatHistory[k] = last.req.new

\* C16: the delivery of an INSERT payload for an id the local transcript does
\* not hold appends the payload's row as the last entry and keeps every
\* existing entry in its position; for an id already held the transcript is
\* unchanged.
C16_InsertAppends ==
  [][(last'.op = "delivered" /\ last'.req.eventType = "INSERT") =>
       LET new == last'.req.new IN
       chatHistory' = IF \E k \in 1..Len(chatHistory) : chatHistory[k].id = new.id
                        THEN chatHistory
                        ELSE Append(chatHistory, new)]_vars

\* two INSERT payloads were appended one after the other
C16_Witness ==
  /\ last.op = "delivered" /\ last.req.eventType = "INSERT" /\ last.ok
  /\ Len(chatHistory) > 2
  /\ chatHistory[Len(chatHistory)] = last.req.new
  /\ chatHistory[Len(chatHistory) - 1].id # 0
  /\ chatHistory[Len(chatHistory) - 1].id < last.req.new.id

\* C18 as stated: with no session the local transcript is the sign-in
\* placeholder alone, and with a session every local message that carries an
\* id is owned by the session's identity.
C18_TranscriptOfBoundIdentity ==
  /\ currentUser = Null => chatHistory = <<initialMessage>>
  /\ currentUser # Null =>
       \A k \in 1..Len(chatHistory) :
         chatHistory[k].id # 0 => chatHistory[k].user_id = CurId

\* C19 as stated: when the fetch of the session's identity has just answered
\* with the rows, nothing else is in flight and no payload is pending, the local
\* transcript holds every message stored for the identity.
C19_NothingLost ==
  (/\ last.op = "fetched" /\ last.ok
   /\ currentUser # Null /\ last.req.uid = CurId
   /\ fetches = <<>> /\ calls = <<>> /\ events = <<>>) =>
    \A m \in 1..Len(messages) :
      messages[m].user_id = CurId =>
        \E k \in 1..Len(chatHistory) : chatHistory[k].id = messages[m].id


(* ---------------------------------------------------------------------- *)
(* Merge-patch handlers: addToBasket (lines 331-343), removeFromBasket     *)
(* (345-356), updateAiProfileInfo (358-381), updateLanguage (383-402).     *)
(* The store processing the update is taken together with the response.    *)
(* ---------------------------------------------------------------------- *)
\* contents the children pass to addToBasket
Items == {"i1", "i2"}

\* the object the Basket form passes to updateAiProfileInfo
ProfileForm ==
  [k \in {"Name", "Location", "Interests"} |->
     CASE k = "Name" -> "Ada" [] k = "Location" -> "Lagos" [] OTHER -> "music"]

\* languages the Header passes to updateLanguage
Languages == {"French"}

\* line 347: basket_items.filter((_, i) => i !== index), index counted from 0
WithoutIndex(items, index) ==
  LET keep == {k \in 1..Len(items) : k - 1 # index}
      pos(n) == CHOOSE k \in keep : Cardinality({m \in keep : m < k}) = n - 1
  IN [n \in 1..Cardinality(keep) |-> items[pos(n)]]

\* lines 339 and 352: prev => prev ? { ...prev, basket_items: updatedBasket } : null
ApplyBasket(prev, updatedBasket) ==
  IF prev = Null THEN Null ELSE [prev EXCEPT !.basket_items = updatedBasket]

\* lines 376 and 397: prev => prev ? { ...prev, ai_profile_info, language } : null
ApplyInfo(prev, data) ==
  IF prev = Null THEN Null
  ELSE [prev EXCEPT !.ai_profile_info = data.ai_profile_info,
                    !.language = LanguageOr(data.ai_profile_info)]

PatchReq(kind, field, value) ==
  [kind |-> kind, id |-> CurId, field |-> field, value |-> value]

\* addToBasket with the local list updated before the write is confirmed
AddToBasketOptimistic(content) ==
  /\ nev < MaxEvents
  /\ nev' = nev + 1
  /\ IF currentUser = Null \/ Includes(currentUser.basket_items, content)
       THEN /\ last' = Step("patchCall", NoReq @@ [add |-> content], TRUE, FALSE)
            /\ UNCHANGED <<calls, currentUser>>
       ELSE LET r == PatchReq("patch", "basket_items",
                              Append(currentUser.basket_items, content))
                      @@ [add |-> content]
            IN /\ calls' = Append(calls, r)
               /\ currentUser' = ApplyBasket(currentUser, r.value)
               /\ last' = Step("patchSent", r, TRUE, FALSE)
  /\ UNCHANGED <<hydrated, authUser, profiles, hyds, chatVars>>

\* addToBasket without the includes() test of line 332
AddToBasketUnchecked(content) ==
  /\ nev < MaxEvents
  /\ nev' = nev + 1
  /\ IF currentUser = Null
       THEN /\ last' = Step("patchCall", NoReq @@ [add |-> content], TRUE, FALSE)
            /\ UNCHANGED calls
       ELSE LET r == PatchReq("patch", "basket_items",
                              Append(currentUser.basket_items, content))
                      @@ [add |-> content]
            IN /\ calls' = Append(calls, r)
               /\ last' = Step("patchSent", r, TRUE, FALSE)
  /\ UNCHANGED <<hydrated, authUser, currentUser, profiles, hyds, chatVars>>

\* lines 331-337, up to the await
AddToBasket(content) ==
  /\ nev < MaxEvents
  /\ nev' = nev + 1
  /\ IF currentUser = Null \/ Includes(currentUser.basket_items, content)
       THEN /\ last' = Step("patchCall", NoReq @@ [add |-> content], TRUE, FALSE)
            /\ UNCHANGED calls
       ELSE LET r == PatchReq("patch", "basket_items",
                              Append(currentUser.basket_items, content))
                      @@ [add |-> content]
            IN /\ calls' = Append(calls, r)
               /\ last' = Step("patchSent", r, TRUE, FALSE)
  /\ UNCHANGED <<hydrated, authUser, currentUser, profiles, hyds, chatVars>>

\* lines 345-350, up to the await
RemoveFromBasket(index) ==
  /\ nev < MaxEvents
  /\ nev' = nev + 1
  /\ IF currentUser = Null
       THEN /\ last' = Step("patchCall", NoReq, TRUE, FALSE)
            /\ UNCHANGED calls
       ELSE LET r == PatchReq("patch", "basket_items",
                              WithoutIndex(currentUser.basket_items, index))
            IN /\ calls' = Append(calls, r)
               /\ last' = Step("patchSent", r, TRUE, FALSE)
  /\ UNCHANGED <<hydrated, authUser, currentUser, profiles, hyds, chatVars>>

\* lines 358-371, up to the await
UpdateAiProfileInfo(updatedProfile) ==
  /\ nev < MaxEvents
  /\ nev' = nev + 1
  /\ IF currentUser = Null
       THEN /\ last' = Step("patchCall", NoReq, TRUE, FALSE)
            /\ UNCHANGED calls
       ELSE LET r == PatchReq("patch", "ai_profile_info",
                              Spread(currentUser.ai_profile_info, updatedProfile))
            IN /\ calls' = Append(calls, r)
               /\ last' = Step("patchSent", r, TRUE, FALSE)
  /\ UNCHANGED <<hydrated, authUser, currentUser, profiles, hyds, chatVars>>

\* lines 383-392, up to the await
UpdateLanguage(newLanguage) ==
  /\ nev < MaxEvents
  /\ nev' = nev + 1
  /\ IF currentUser = Null
       THEN /\ last' = Step("patchCall", NoReq, TRUE, FALSE)
            /\ UNCHANGED calls
       ELSE LET r == PatchReq("patch", "ai_profile_info",
                              Spread(currentUser.ai_profile_info,
                                     [k \in {"language"} |-> newLanguage]))
                      @@ [lang |-> newLanguage]
            IN /\ calls' = Append(calls, r)
               /\ last' = Step("patchSent", r, TRUE, FALSE)
  /\ UNCHANGED <<hydrated, authUser, currentUser, profiles, hyds, chatVars>>

\* lines 337-342 and 350-355: update({ basket_items }).eq('id') answers (no row
\* matched is no error); on success the local list becomes updatedBasket
BasketDone(i) ==
  LET r == calls[i] IN
  /\ r.kind = "patch" /\ r.field = "basket_items"
  /\ calls' = Remove(calls, i)
  /\ \E fail \in BOOLEAN :
       /\ profiles' = IF fail \/ profiles[r.id] = NoRow THEN profiles
                      ELSE [profiles EXCEPT ![r.id].basket_items = r.value]
       /\ currentUser' = IF fail THEN currentUser ELSE ApplyBasket(currentUser, r.value)
       /\ last' = Step("patchDone", r @@ [before |-> profiles[r.id]], ~fail, FALSE)
  /\ UNCHANGED <<hydrated, authUser, hyds, chatVars, nev>>

\* lines 366-380 and 387-401: update({ ai_profile_info }).eq('id').select().single()
\* answers (an error when no row matched); on success the local map and language
\* come from the returned row
InfoDone(i) ==
  LET r == calls[i] IN
  /\ r.kind = "patch" /\ r.field = "ai_profile_info"
  /\ calls' = Remove(calls, i)
  /\ \E fail \in BOOLEAN :
       LET ok == ~fail /\ profiles[r.id] # NoRow IN
       /\ profiles' = IF ok THEN [profiles EXCEPT ![r.id].ai_profile_info = r.value]
                      ELSE profiles
       /\ currentUser' = IF ok THEN ApplyInfo(currentUser, profiles'[r.id]) ELSE currentUser
       /\ last' = Step("patchDone", r @@ [before |-> profiles[r.id]], ok, FALSE)
  /\ UNCHANGED <<hydrated, authUser, hyds, chatVars, nev>>

MergePatch ==
  \/ \E content \in Items : AddToBasket(content)
  \/ \E index \in 0..1 : RemoveFromBasket(index)
  \/ UpdateAiProfileInfo(ProfileForm)
  \/ \E newLanguage \in Languages : UpdateLanguage(newLanguage)
  \/ \E i \in 1..Len(calls) : BasketDone(i) \/ InfoDone(i)

\* the session, hydration and the merge-patch handlers
NextPatch == Auth \/ Hydrate \/ MergePatch

\* a row an earlier session has personalised and saved an item to
SavedRow(id) ==
  [LegacyRow(id, 30) EXCEPT
     !.ai_profile_info = Spread(FullDefaultInfo, [k \in {"Name"} |-> "Bola"]),
     !.basket_items = <<"i1">>]

PatchRows(id) ==
  IF IsAdminEmail(EmailOf(id)) THEN InitRows(id) ELSE InitRows(id) \cup {SavedRow(id)}

\* as Init, the store holding any of the rows above
InitPatch ==
  /\ authUser = "none"
  /\ currentUser = Null
  /\ profiles \in {f \in [Ids -> UNION {PatchRows(id) : id \in Ids}] :
                     \A id \in Ids : f[id] \in PatchRows(id)}
  /\ hyds = <<>>
  /\ calls = <<>>
  /\ chatHistory = <<initialMessage>>
  /\ messages = <<>>
  /\ fetches = <<>>
  /\ channel = "none"
  /\ events = <<>>
  /\ nev = 0
  /\ hydrated = FALSE
  /\ last = Quiet

SpecPatch == InitPatch /\ [][NextPatch]_vars

(* ---------------------------------------------------------------------- *)
(* Properties of the merge-patch handlers, checked under SpecPatch         *)
(* ---------------------------------------------------------------------- *)
\* the fields of the session the merge-patch handlers write
PatchedFields(user) ==
  <<user.basket_items, user.ai_profile_info, user.language>>

\* C10: a merge-patch call changes nothing in the session before its write is
\* confirmed; the response of a failed write leaves the session exactly as it
\* was; between two sessions of the same identity the patched fields change only
\* in the response of a confirmed write (or of a hydration), and a confirmed
\* write of the saved items leaves the list that was written.
C10_NotOptimistic ==
  /\ [][(nev' # nev /\ last'.op \in {"patchCall", "patchSent"}) =>
          currentUser' = currentUser]_vars
  /\ [][(last'.op = "patchDone" /\ ~last'.ok) => currentUser' = currentUser]_vars
  /\ [][(/\ currentUser # Null /\ currentUser' # Null
         /\ currentUser'.id = currentUser.id
         /\ PatchedFields(currentUser') # PatchedFields(currentUser)) =>
          \/ last'.op = "patchDone" /\ last'.ok
          \/ last'.op \in {"hydrated", "inserted"}]_vars
  /\ []((last.op = "patchDone" /\ last.ok /\ last.req.field = "basket_items"
           /\ currentUser # Null) =>
          currentUser.basket_items = last.req.value)

\* the write of a saved item failed and the session still lacks the item
C10_Witness ==
  /\ last.op = "patchDone" /\ ~last.ok
  /\ last.req.field = "basket_items"
  /\ currentUser # Null
  /\ Len(last.req.value) > Len(currentUser.basket_items)


\* lines 116-142: the session a hydration produces from a row it finds
FreshHydration(row, user) ==
  SessionOf(IF NeedsUpdate(row.ai_profile_info)
              THEN [row EXCEPT !.ai_profile_info = UpdatedAiInfo(row.ai_profile_info)]
              ELSE row,
            user)

\* C11 as stated: once a language update to L has succeeded, a hydration reading
\* the row yields a session whose language is L, and every other key of the
\* personalization map holds the value the row held before the update.
C11_LanguageRoundTrip ==
  (last.op = "patchDone" /\ last.ok /\ "lang" \in DOMAIN last.req) =>
    LET fresh == FreshHydration(profiles[last.req.id], last.req.id)
        before == last.req.before.ai_profile_info
    IN /\ fresh.language = last.req.lang
       /\ fresh.ai_profile_info["language"] = last.req.lang
       /\ \A k \in (DOMAIN before) \ {"language"} :
            fresh.ai_profile_info[k] = before[k]


\* no two positions of the list hold the same content
NoDuplicates(items) ==
  \A i, j \in 1..Len(items) : i # j => items[i] # items[j]

\* C12: the saved-items list of the session and that of every profile row never
\* hold the same content twice, and an addToBasket call for a content the local
\* list already holds returns at once: no request, no change of the session or
\* of the rows.
C12_SavedItemsDistinct ==
  /\ [](/\ currentUser # Null => NoDuplicates(currentUser.basket_items)
        /\ \A id \in Ids :
             profiles[id] # NoRow => NoDuplicates(profiles[id].basket_items))
  /\ [][(/\ nev' # nev
         /\ last'.op \in {"patchCall", "patchSent"}
         /\ "add" \in DOMAIN last'.req
         /\ currentUser # Null
         /\ Includes(currentUser.basket_items, last'.req.add)) =>
          (/\ last'.op = "patchCall"
           /\ calls' = calls
           /\ profiles' = profiles
           /\ currentUser' = currentUser)]_vars

\* addToBasket was called for a content the hydrated local list already held
C12_Witness ==
  /\ last.op = "patchCall" /\ "add" \in DOMAIN last.req
  /\ currentUser # Null
  /\ Includes(currentUser.basket_items, last.req.add)
  /\ profiles[CurId] # NoRow
  /\ profiles[CurId].basket_items = currentUser.basket_items


(* ---------------------------------------------------------------------- *)
(* One client alone: the session, hydration, the ledger and the            *)
(* merge-patch handlers, no other session writing to the store             *)
(* ---------------------------------------------------------------------- *)
NextClient == Auth \/ Hydrate \/ Ledger \/ MergePatch

SpecClient == Init /\ [][NextClient]_vars

\* C14: a successful write of a debit or credit leaves the persisted points at
\* the value that operation computed from the local points it read, and a
\* successful write of the saved items leaves the persisted list at the list
\* that operation computed; so when a debit and a credit were computed from the
\* same local points and the other's write was applied first, the persisted
\* points after the later write carry the later operation's change only.
C14_LastWriterWins ==
  /\ (last.op = "store" /\ last.ok /\ profiles[last.req.id] # NoRow) =>
       /\ profiles[last.req.id].points =
            (IF last.req.kind = "credit" THEN last.req.base + last.req.amount
             ELSE last.req.base - last.req.amount)
       /\ \A i \in 1..Len(calls) :
            (/\ calls[i].kind \in {"debit", "credit"}
             /\ calls[i].kind # last.req.kind
             /\ calls[i].id = last.req.id
             /\ calls[i].st = "ok"
             /\ calls[i].base = last.req.base) =>
              profiles[last.req.id].points # calls[i].newPoints
  /\ (/\ last.op = "patchDone" /\ last.ok
      /\ last.req.field = "basket_items"
      /\ profiles[last.req.id] # NoRow) =>
       profiles[last.req.id].basket_items = last.req.value

\* the write of a credit was applied after that of a debit computed from the
\* same local points: the persisted points are those points plus the grant
C14_Witness ==
  /\ last.op = "store" /\ last.ok /\ last.req.kind = "credit"
  /\ profiles[last.req.id] # NoRow
  /\ \E i \in 1..Len(calls) :
       /\ calls[i].kind = "debit" /\ calls[i].st = "ok"
       /\ calls[i].id = last.req.id /\ calls[i].base = last.req.base
  /\ profiles[last.req.id].points = last.req.base + last.req.amount

\* C17 as stated: an absent session becomes present only by a signed-in event.
C17_AbsentUntilSignIn ==
  [][(currentUser = Null /\ currentUser' # Null) =>
       (/\ nev' = nev + 1
        /\ authUser' # "none"
        /\ currentUser'.id = authUser')]_vars

\* nothing in flight for a present session that was set from its profile row
Quiescent ==
  /\ currentUser # Null
  /\ hydrated
  /\ hyds = <<>>
  /\ calls = <<>>
  /\ profiles[CurId] # NoRow

\* C20 as stated: in a quiescent state of the single client the local points,
\* tier and saved items equal those of the profile row of the session's identity.
C20_QuiescentAgreement ==
  Quiescent =>
    /\ currentUser.points = profiles[CurId].points
    /\ currentUser.tier = profiles[CurId].tier
    /\ currentUser.basket_items = profiles[CurId].basket_items

====
